---- MODULE Spec2Model ----
(***************************************************************************)
(* XDTS export engine of the Krita "Animation Layers Exporter" plugin:     *)
(* XDTSExportEngine.export / _run_export / _process_frame (exporter.py),   *)
(* FrameExporter.export_frame (frame_export.py) and the part of the export *)
(* dialog that drives the engine (ui_export_dialog.py).                    *)
(*                                                                         *)
(* One action is one stretch of _run_export between two points where the   *)
(* engine gives up control: the set-up, the start of an animated layer,    *)
(* the poll and report that begin a keyframe or a static layer, the        *)
(* processing of the unit begun, the end of a layer and the write of the   *)
(* document. The dialog's on_progress runs the event loop, so each report  *)
(* ends a step. The document stands at any frame when the engine is built. *)
(*                                                                         *)
(* Spec       one export() on a fresh engine, layers all named alike       *)
(* SpecNames  the same on one-frame documents with unsafe and empty names  *)
(* SpecReuse  export() called again on an engine that has returned         *)
(* SpecFrames FrameExporter.export_frame taken statement by statement      *)
(***************************************************************************)
EXTENDS Integers, Sequences, FiniteSets, TLC

\* ---------------------------------------------------------------- bounds
StartFrame == 1
MaxDuration == 3
MaxLayers == 2
MaxStatic == 2
NumPixels == 3
MaxSize == 4
MaxCalls == 2
MaxFrameCalls == 2

\* ------------------------------------------------------------- constants
SYMBOL_NULL_CELL == "SYMBOL_NULL_CELL"
FORMAT_SEQ_ONLY == 0
FORMAT_LAYER_SEQ == 1

\* ExportOptions.__init__ defaults
opt_file_format == FORMAT_LAYER_SEQ
opt_file_prefix == ""
opt_file_suffix == ""
opt_file_separator == "_"
opt_image_format == "png"
opt_export_name == ""

\* ExportResult.__init__
NewExportResult ==
    [success |-> FALSE, output_path |-> "", track_count |-> 0, frame_count |-> 0,
     unique_frames_exported |-> 0, error_message |-> ""]

\* ------------------------------------------------------------ environment
\* Rendered content of a layer at a keyframe: 0 is a fully transparent
\* raster, 1..NumPixels are distinct non-blank rasters.
Pixels == 0 .. NumPixels
\* Layer names as the document has them: a plain name, a name with a character
\* unsafe in a path, and the empty name.
RawNames == {"A", "A/2", ""}
\* A document whose layers all bear one name: every name but the first collides.
PlainNames == {"A"}
\* str(e) of what Krita raises inside export_frame, and of what the write of
\* the document raises
ExceptionTexts == {"export raised"}
WriteErrors == {"[Errno 13] Permission denied", "[Errno 28] No space left on device"}
\* What FrameExporter.export_frame meets inside Krita.
ExportOutcomes ==
    {"ok", "export_false", "empty_pixels", "no_temp_doc", "raise_transfer", "raise_export"}

\* --------------------------------------------------------- pure helpers
Digit(d) ==
    CASE d = 0 -> "0" [] d = 1 -> "1" [] d = 2 -> "2" [] d = 3 -> "3" [] d = 4 -> "4"
      [] d = 5 -> "5" [] d = 6 -> "6" [] d = 7 -> "7" [] d = 8 -> "8" [] d = 9 -> "9"

\* str(n) of a non-negative integer
RECURSIVE Str(_)
Str(n) == IF n < 10 THEN Digit(n) ELSE Str(n \div 10) \o Digit(n % 10)

\* The numbers a label of this model can stand for, for reading a label back.
LabelNumbers == 0 .. MaxSize
\* cell_label.isdigit()
IsDigit(s) == \E n \in LabelNumbers : Str(n) = s
\* int(cell_label)
Int_(s) == CHOOSE n \in LabelNumbers : Str(n) = s

\* utils.int_to_str: fixed-width zero-padded decimal
int_to_str(n) ==
    Digit((n \div 1000) % 10) \o Digit((n \div 100) % 10) \o Digit((n \div 10) % 10)
        \o Digit(n % 10)

\* utils.compute_content_hash: deterministic, equal rasters give equal hashes
compute_content_hash(pixel_data) == "h" \o Str(pixel_data)

\* layer.is_stop_frame: the layer's current content is fully transparent
is_stop_frame(pixel_data) == pixel_data = 0

\* utils.sanitize_filename: unsafe characters replaced, never empty
sanitize_filename(name) ==
    IF name = "" THEN "unnamed"
    ELSE IF name = "A/2" THEN "A_2"
    ELSE name

\* utils.make_unique_name: base, else base_2, base_3, ... until unused
RECURSIVE UniqueFrom(_, _, _)
UniqueFrom(base, used, n) ==
    IF (base \o "_" \o Str(n)) \notin used THEN base \o "_" \o Str(n)
    ELSE UniqueFrom(base, used, n + 1)
make_unique_name(base, used) == IF base \notin used THEN base ELSE UniqueFrom(base, used, 2)

\* str.join
RECURSIVE Join(_, _)
Join(sep, parts) ==
    IF Len(parts) = 0 THEN ""
    ELSE IF Len(parts) = 1 THEN parts[1]
    ELSE parts[1] \o sep \o Join(sep, Tail(parts))

\* os.path.join
PathJoin(a, b) == a \o "/" \o b

\* XDTSExportEngine._build_filename
_build_filename(layer_name, cell_number) ==
    LET seq == int_to_str(cell_number)
        p1 == IF opt_file_prefix # "" THEN <<opt_file_prefix>> ELSE <<>>
        p2 == IF opt_file_format = FORMAT_LAYER_SEQ THEN p1 \o <<layer_name>> ELSE p1
        p3 == IF opt_file_suffix # "" THEN p2 \o <<opt_file_suffix>> ELSE p2
        parts == p3 \o <<seq>>
    IN  Join(opt_file_separator, parts) \o "." \o opt_image_format

\* strictly increasing sequences of frames in lo..hi (layer.get_layer_keyframes)
RECURSIVE AscSeqs(_, _)
AscSeqs(lo, hi) ==
    IF lo > hi THEN {<<>>}
    ELSE AscSeqs(lo + 1, hi) \cup {<<lo>> \o s : s \in AscSeqs(lo + 1, hi)}

RECURSIVE SumLen(_)
SumLen(ss) == IF Len(ss) = 0 THEN 0 ELSE Len(ss[1]) + SumLen(Tail(ss))

\* layer.count_total_keyframes
count_total_keyframes(layers) == SumLen(layers)

\* xdts_file.create_xdts_document
create_xdts_document(duration) == [duration |-> duration, tracks |-> <<>>]
\* xdts_file.add_track
add_track(doc, name, track_no) ==
    [doc EXCEPT !.tracks = Append(@, [name |-> name, trackNo |-> track_no, frames |-> <<>>])]
\* xdts_file.add_frame_to_track, on the track being built (the last one)
add_frame_to_track(doc, frame, cell) ==
    [doc EXCEPT !.tracks[Len(doc.tracks)].frames = Append(@, [frame |-> frame, cell |-> cell])]
\* xdts_file.add_track_terminator
add_track_terminator(doc, duration) == add_frame_to_track(doc, duration, SYMBOL_NULL_CELL)

\* FrameExporter.export_frame, given what Krita does (oc): the value returned
\* ("true", "false") or "raise", the temporary documents created and closed,
\* and whether the image file was written.
export_frame(oc) ==
    IF oc = "empty_pixels" THEN
        [ret |-> "false", created |-> 0, closed |-> 0, written |-> FALSE]
    ELSE IF oc = "no_temp_doc" THEN
        [ret |-> "false", created |-> 0, closed |-> 0, written |-> FALSE]
    ELSE IF oc \in {"raise_transfer", "raise_export"} THEN
        [ret |-> "raise", created |-> 1, closed |-> 1, written |-> FALSE]
    ELSE IF oc = "export_false" THEN
        [ret |-> "false", created |-> 1, closed |-> 1, written |-> FALSE]
    ELSE
        [ret |-> "true", created |-> 1, closed |-> 1, written |-> TRUE]

\* ------------------------------------------------------------------ state
VARIABLES
    pc,                 \* where export() is
    phase,              \* where in a unit of work it is: "poll" at the head of the loop,
                        \* "reported" and "warned" where on_progress ran the event loop
    start_frame, end_frame,
    animated_layers,    \* per exportable animated layer, its keyframes in range
    include_static,     \* options.include_static
    layer_names,        \* the names that layers of the document bear
    call_no,            \* calls of export() made on this engine
    static_layers,      \* number of static layers to export
    duration, total_work,
    xdts_doc,
    processed, total_unique, used_layer_names,
    track_no,           \* animated layers begun so far
    layer_name, hash_to_label, cell_count, last_was_stop_frame,
    kf,                 \* index of the next keyframe of the current layer
    static_idx,         \* static layers begun so far
    static_exported,
    result,             \* self._result
    current_time,       \* the source document's current time
    \* history of what left the engine
    cancel_checks,      \* calls of _is_cancelled
    cancelled,          \* a check returned true
    files,              \* image files written
    export_calls,       \* calls of export_frame
    observed,           \* keyframes seen, with raster, fingerprint and label
    progress,           \* calls of _report_progress, each with the number of units
                        \* whose processing had ended when it was made (finished)
    temp_open,          \* temporary documents open
    serialized,         \* calls of write_xdts_file that wrote the document
    exit_path,          \* how _run_export ended
    dialog_cancelled,   \* the dialog's cancelled flag
    dialog_shown,       \* what the dialog told the user
    raised_text,        \* str(e) of the exception that ended _run_export, if any
    reads,              \* reads of rendered content, with the position they met
    last_export         \* a call of export_frame taken step by step: what it met and did

\* what no step of a run changes
docVars == <<start_frame, end_frame, animated_layers, include_static, layer_names, call_no>>
runVars == <<static_layers, duration, total_work, processed, total_unique, used_layer_names,
             track_no, static_idx, static_exported>>
layerVars == <<layer_name, hash_to_label, cell_count, last_was_stop_frame, kf>>
histVars == <<cancel_checks, cancelled, files, export_calls, observed, progress, temp_open,
              serialized, exit_path, dialog_cancelled, dialog_shown, raised_text, reads,
              last_export>>
vars == <<pc, phase, docVars, runVars, layerVars, xdts_doc, result, current_time, histVars>>

EmptyMap == [h \in {} |-> ""]
\* the frames the document can stand at when the engine is built
DocumentFrames == StartFrame .. StartFrame + MaxDuration - 1
\* before the first call of export_frame
NoExport == [oc |-> "none", ret |-> "none", created |-> 0, closed |-> 0]

\* The document export() is given: its frame range, the keyframes of its
\* animated layers in the range, and the names its layers bear.
InitDocument(last_frames, names) ==
    /\ start_frame = StartFrame
    /\ end_frame \in last_frames
    /\ \E n \in 0 .. MaxLayers :
         animated_layers \in [1 .. n -> AscSeqs(start_frame, end_frame)]
    /\ Len(animated_layers) + count_total_keyframes(animated_layers) <= MaxSize
    /\ include_static \in BOOLEAN
    /\ layer_names = names

\* XDTSExportEngine.__init__, and the caller's callbacks
InitEngine ==
    /\ pc = "new"
    /\ phase = "poll"
    /\ call_no = 1
    /\ static_layers = 0
    /\ duration = 0
    /\ total_work = 0
    /\ xdts_doc = create_xdts_document(0)
    /\ processed = 0
    /\ total_unique = 0
    /\ used_layer_names = {}
    /\ track_no = 0
    /\ layer_name = ""
    /\ hash_to_label = EmptyMap
    /\ cell_count = 0
    /\ last_was_stop_frame = FALSE
    /\ kf = 1
    /\ static_idx = 0
    /\ static_exported = 0
    /\ result = NewExportResult
    /\ current_time \in DocumentFrames
    /\ cancel_checks = 0
    /\ cancelled = FALSE
    /\ files = {}
    /\ export_calls = <<>>
    /\ observed = <<>>
    /\ progress = <<>>
    /\ temp_open = 0
    /\ serialized = 0
    /\ exit_path = "running"
    /\ dialog_cancelled = FALSE
    /\ dialog_shown = "none"
    /\ raised_text = ""
    /\ reads = <<>>
    /\ last_export = NoExport

\* a fresh engine on a document whose layers are all named alike
Init ==
    /\ InitDocument(StartFrame .. StartFrame + MaxDuration - 1, PlainNames)
    /\ InitEngine

\* ExportResult.__str__
ResultStr(res) ==
    IF res.success
    THEN "Export complete: " \o Str(res.track_count) \o " tracks, "
             \o Str(res.unique_frames_exported) \o " unique frames"
    ELSE "Export failed: " \o res.error_message

\* DialogReport without the cancelled flag
DialogReportNoFlag(res, flag) == IF res.success THEN "success" ELSE "export_failed"
\* ui_export_dialog.py lines 395-405: what the dialog shows for a result
DialogReport(res, flag) ==
    IF res.success THEN "success"
    ELSE IF ~flag THEN "export_failed"
    ELSE "nothing"
\* XDTSExportDialog._run_export: the report follows the return of export()
Reported ==
    dialog_shown' = IF pc' = "returned" THEN DialogReport(result', dialog_cancelled')
                    ELSE dialog_shown

NoLayersMessage == "No exportable layers found"
CancelMessage == "Export cancelled by user"
FrameMessage(name, frame) == "Exporting " \o name \o " - frame " \o Str(frame) \o "..."
FailedMessage(name, frame) == "Failed to export frame " \o Str(frame) \o " of " \o name
StaticMessage(name) == "Exporting static layer " \o name \o "..."
WarningMessage(name) == "Warning: Failed to export " \o name

\* Raised that drops the text of the exception
Raised_without_text(text) == [result EXCEPT !.success = FALSE]
\* export(): an exception of _run_export ends the call
Raised(text) == [result EXCEPT !.success = FALSE, !.error_message = text]

\* the keyframes of the layer being processed
keyframes == animated_layers[track_no]

\* no_work that looks at the animated layers only
no_work_animated_only(n_animated, n_static) == n_animated = 0
\* line 152: neither an animated nor a static layer to export
no_work(n_animated, n_static) == n_animated = 0 /\ n_static = 0

\* _run_export, up to the first layer; statics is what get_static_layers finds
StartExport ==
    /\ pc = "new"
    /\ \E statics \in 0 .. (IF include_static THEN MaxStatic ELSE 0) :
         LET dur == end_frame - start_frame + 1 IN
         /\ Len(animated_layers) + count_total_keyframes(animated_layers) + statics <= MaxSize
         /\ IF no_work(Len(animated_layers), statics)
            THEN /\ result' = [result EXCEPT !.error_message = NoLayersMessage]
                 /\ static_layers' = statics
                 /\ pc' = "returned"
                 /\ exit_path' = "no layers"
                 /\ UNCHANGED <<duration, total_work, processed, total_unique,
                                used_layer_names, track_no, static_idx, static_exported,
                                xdts_doc>>
            ELSE /\ static_layers' = statics
                 /\ exit_path' = exit_path
                 /\ duration' = dur
                 /\ total_work' = count_total_keyframes(animated_layers) + statics
                 /\ xdts_doc' = create_xdts_document(dur)
                 /\ pc' = IF Len(animated_layers) > 0 THEN "layers" ELSE "static"
                 /\ UNCHANGED <<result, processed, total_unique, used_layer_names, track_no,
                                static_idx, static_exported>>
    /\ UNCHANGED <<docVars, layerVars, current_time, cancel_checks, cancelled, files,
                   export_calls, observed, progress, temp_open, serialized, dialog_cancelled,
                   raised_text, reads, last_export, phase>>
    /\ Reported

\* BeginLayer with one fingerprint map for the whole run
BeginLayerSharedMap ==
    /\ pc = "layers"
    /\ track_no < Len(animated_layers)
    /\ \E raw \in layer_names :
         LET base_name == sanitize_filename(raw)
             name == make_unique_name(base_name, used_layer_names)
         IN  /\ layer_name' = name
             /\ used_layer_names' = used_layer_names \cup {name}
             /\ xdts_doc' = add_track(xdts_doc, name, track_no)
    /\ track_no' = track_no + 1
    /\ hash_to_label' = hash_to_label
    /\ cell_count' = 0
    /\ last_was_stop_frame' = FALSE
    /\ kf' = 1
    /\ pc' = "frames"
    /\ UNCHANGED <<docVars, static_layers, duration, total_work, processed, total_unique,
                   static_idx, static_exported, result, current_time, histVars, phase>>

\* the head of the loop over animated layers, up to the loop over its keyframes
BeginLayer ==
    /\ pc = "layers"
    /\ track_no < Len(animated_layers)
    /\ \E raw \in layer_names :
         LET base_name == sanitize_filename(raw)
             name == make_unique_name(base_name, used_layer_names)
         IN  /\ layer_name' = name
             /\ used_layer_names' = used_layer_names \cup {name}
             /\ xdts_doc' = add_track(xdts_doc, name, track_no)
    /\ track_no' = track_no + 1
    /\ hash_to_label' = EmptyMap
    /\ cell_count' = 0
    /\ last_was_stop_frame' = FALSE
    /\ kf' = 1
    /\ pc' = "frames"
    /\ UNCHANGED <<docVars, static_layers, duration, total_work, processed, total_unique,
                   static_idx, static_exported, result, current_time, histVars, phase>>

\* lookup_or_assign without the early return of lines 369-370
lookup_or_assign_no_reuse(h2l, content_hash) ==
    LET cell_number == Cardinality(DOMAIN h2l) + 1
        cell_label == Str(cell_number)
    IN  [label |-> cell_label, is_new |-> TRUE, number |-> cell_number,
         map |-> (content_hash :> cell_label) @@ h2l]

\* _process_frame, lines 368-377: the label of a fingerprint in the track's map
lookup_or_assign(h2l, content_hash) ==
    IF content_hash \in DOMAIN h2l
    THEN [label |-> h2l[content_hash], is_new |-> FALSE, number |-> 0, map |-> h2l]
    ELSE LET cell_number == Cardinality(DOMAIN h2l) + 1
             cell_label == Str(cell_number)
         IN  [label |-> cell_label, is_new |-> TRUE, number |-> cell_number,
              map |-> (content_hash :> cell_label) @@ h2l]

\* process_frame that exports the image also when the label is reused
process_frame_reexport(h2l, pixel_data, frame, name, folder, oc) ==
    LET content_hash == compute_content_hash(pixel_data)
        la == lookup_or_assign(h2l, content_hash)
        number == IF la.is_new THEN la.number ELSE Int_(la.label)
        filepath == PathJoin(folder, _build_filename(name, number))
        ex == export_frame(oc)
    IN  [label |-> IF ex.ret = "true" THEN la.label ELSE "None",
         map |-> la.map, hash |-> content_hash,
         calls |-> <<[kind |-> "cell", layer |-> name, frame |-> frame,
                      path |-> filepath, hash |-> content_hash, ret |-> ex.ret]>>,
         raised |-> ex.ret = "raise", created |-> ex.created, closed |-> ex.closed,
         written |-> IF ex.written THEN {filepath} ELSE {}]

\* _process_frame: the label returned ("None" for None), the map as it is left,
\* and the call of export_frame it made, if any
process_frame(h2l, pixel_data, frame, name, folder, oc) ==
    LET content_hash == compute_content_hash(pixel_data)
        la == lookup_or_assign(h2l, content_hash)
    IN  IF ~la.is_new
        THEN [label |-> la.label, map |-> la.map, hash |-> content_hash, calls |-> <<>>,
              raised |-> FALSE, created |-> 0, closed |-> 0, written |-> {}]
        ELSE LET filepath == PathJoin(folder, _build_filename(name, la.number))
                 ex == export_frame(oc)
             IN  [label |-> IF ex.ret = "true" THEN la.label ELSE "None",
                  map |-> la.map, hash |-> content_hash,
                  calls |-> <<[kind |-> "cell", layer |-> name, frame |-> frame,
                               path |-> filepath, hash |-> content_hash, ret |-> ex.ret]>>,
                  raised |-> ex.ret = "raise", created |-> ex.created, closed |-> ex.closed,
                  written |-> IF ex.written THEN {filepath} ELSE {}]

\* relative_frame without the subtraction
relative_frame_absolute(frame, start) == frame
\* line 214
relative_frame(frame, start) == frame - start
\* needs_terminator that always closes the track
needs_terminator_always(last_was_stop) == TRUE
\* needs_terminator with the test inverted
needs_terminator_inverted(last_was_stop) == last_was_stop
\* line 251
needs_terminator(last_was_stop) == ~last_was_stop
\* count_unique that counts every label, also a reused one
count_unique_every(cell_label, count, unique) ==
    LET cell_num == IF IsDigit(cell_label) THEN Int_(cell_label) ELSE 0
    IN  <<IF cell_num > count THEN cell_num ELSE count, unique + 1>>
\* lines 242-245: the new (cell_count, total_unique) after a label
count_unique(cell_label, count, unique) ==
    LET cell_num == IF IsDigit(cell_label) THEN Int_(cell_label) ELSE 0
    IN  IF cell_num > count THEN <<cell_num, unique + 1>> ELSE <<count, unique>>

\* frame_failed that lets a failed frame through
frame_failed_never(cell_label) == FALSE
\* line 236: the frame's export failed
frame_failed(cell_label) == cell_label = "None"
\* static_aborts that treats a failed static layer like a failed frame
static_aborts_on_failure(ret) == ret # "true"
\* lines 280-290 under export()'s handler: what ends the run at a static layer
static_aborts(ret) == ret = "raise"

\* set_position that leaves the document where it is
set_position_skipped(time, frame) == time
\* document.setCurrentTime(frame); document.waitForDone()
set_position(time, frame) == frame
\* a read of the rendered content of a layer, at the document's position
read_at(kind, time, frame) == [kind |-> kind, at |-> time, frame |-> frame]

\* _is_cancelled() is true at a keyframe: lines 202-204
KeyframeCancelled ==
    /\ pc = "frames"
    /\ phase = "poll"
    /\ kf <= Len(keyframes)
    /\ cancel_checks' = cancel_checks + 1
    /\ cancelled' = TRUE
    /\ dialog_cancelled' = TRUE
    /\ result' = [result EXCEPT !.error_message = CancelMessage]
    /\ pc' = "returned"
    /\ exit_path' = "cancelled"
    /\ UNCHANGED <<docVars, runVars, layerVars, xdts_doc, current_time, files, export_calls,
                   observed, progress, temp_open, serialized, raised_text, reads, last_export,
                   phase>>
    /\ Reported

\* a keyframe is begun, lines 200-212: _is_cancelled() is false, the unit is
\* counted and reported; on_progress hands control to the event loop
\* (ui_export_dialog.py line 376) before the frame is looked at
KeyframeBegin ==
    /\ pc = "frames"
    /\ phase = "poll"
    /\ kf <= Len(keyframes)
    /\ cancel_checks' = cancel_checks + 1
    /\ processed' = processed + 1
    /\ progress' = Append(progress, [current |-> processed + 1, total |-> total_work,
                                     message |-> FrameMessage(layer_name, keyframes[kf]),
                                     finished |-> processed])
    /\ phase' = "reported"
    /\ UNCHANGED <<pc, docVars, static_layers, duration, total_work, total_unique,
                   used_layer_names, track_no, static_idx, static_exported, layerVars,
                   xdts_doc, result, current_time, cancelled, files, export_calls, observed,
                   temp_open, serialized, exit_path, dialog_cancelled, raised_text, reads,
                   last_export>>
    /\ Reported

\* after_stop that leaves the loop over the keyframes
after_stop_break(k, n) == n + 1
\* line 225: continue with the next keyframe (k of n is the stop)
after_stop(k, n) == k + 1

\* the keyframe begun is blank: lines 214-225
KeyframeStop ==
    /\ pc = "frames"
    /\ phase = "reported"
    /\ \E pixel_data \in Pixels :
         LET frame == keyframes[kf] IN
         /\ is_stop_frame(pixel_data)
         /\ current_time' = set_position(current_time, frame)
         /\ reads' = Append(reads, read_at("stop", set_position(current_time, frame), frame))
         /\ xdts_doc' = add_frame_to_track(xdts_doc, relative_frame(frame, start_frame),
                                           SYMBOL_NULL_CELL)
         /\ last_was_stop_frame' = TRUE
         /\ observed' = Append(observed, [layer |-> track_no - 1, frame |-> frame,
                                          stop |-> TRUE, hash |-> "",
                                          label |-> SYMBOL_NULL_CELL])
    /\ kf' = after_stop(kf, Len(keyframes))
    /\ phase' = "poll"
    /\ UNCHANGED <<pc, docVars, runVars, layer_name, hash_to_label, cell_count, result,
                   cancel_checks, cancelled, files, export_calls, progress, temp_open,
                   serialized, exit_path, dialog_cancelled, raised_text, last_export>>
    /\ Reported

\* the keyframe begun has content: lines 214-248 and _process_frame
KeyframeExposed ==
    /\ pc = "frames"
    /\ phase = "reported"
    /\ \E pixel_data \in Pixels, oc \in ExportOutcomes, text \in ExceptionTexts :
         LET frame == keyframes[kf]
             r == process_frame(hash_to_label, pixel_data, frame, layer_name, layer_name, oc)
             cu == count_unique(r.label, cell_count, total_unique)
             t1 == set_position(current_time, frame)
             t2 == set_position(t1, frame)
             t3 == IF Len(r.calls) > 0 THEN set_position(t2, frame) ELSE t2
         IN
         /\ ~is_stop_frame(pixel_data)
         /\ current_time' = t3
         /\ reads' = reads \o <<read_at("stop", t1, frame), read_at("fingerprint", t2, frame)>>
                        \o (IF Len(r.calls) > 0 THEN <<read_at("export", t3, frame)>> ELSE <<>>)
         /\ raised_text' = IF r.raised THEN text ELSE raised_text
         /\ last_was_stop_frame' = FALSE
         /\ hash_to_label' = r.map
         /\ export_calls' = export_calls \o r.calls
         /\ files' = files \cup r.written
         /\ temp_open' = temp_open + r.created - r.closed
         /\ observed' = Append(observed, [layer |-> track_no - 1, frame |-> frame,
                                          stop |-> FALSE, hash |-> r.hash,
                                          label |-> IF r.raised THEN "raise" ELSE r.label])
         /\ IF r.raised
            THEN /\ result' = Raised(text)
                 /\ pc' = "returned"
                 /\ exit_path' = "exception"
                 /\ UNCHANGED <<cell_count, total_unique, xdts_doc, kf>>
            ELSE IF frame_failed(r.label)
            THEN /\ result' = [result EXCEPT !.error_message = FailedMessage(layer_name, frame)]
                 /\ pc' = "returned"
                 /\ exit_path' = "frame failed"
                 /\ UNCHANGED <<cell_count, total_unique, xdts_doc, kf>>
            ELSE /\ cell_count' = cu[1]
                 /\ total_unique' = cu[2]
                 /\ xdts_doc' = add_frame_to_track(xdts_doc,
                                                   relative_frame(frame, start_frame), r.label)
                 /\ kf' = kf + 1
                 /\ UNCHANGED <<pc, result, exit_path>>
    /\ phase' = "poll"
    /\ UNCHANGED <<docVars, static_layers, duration, total_work, processed, used_layer_names,
                   track_no, static_idx, static_exported, layer_name, cancel_checks, cancelled,
                   progress, serialized, dialog_cancelled, last_export>>
    /\ Reported

\* after the last keyframe of a layer: lines 250-254
EndLayer ==
    /\ pc = "frames"
    /\ phase = "poll"
    /\ kf > Len(keyframes)
    /\ xdts_doc' = IF needs_terminator(last_was_stop_frame)
                   THEN add_track_terminator(xdts_doc, duration)
                   ELSE xdts_doc
    /\ result' = [result EXCEPT !.frame_count = @ + Len(keyframes)]
    /\ pc' = IF track_no < Len(animated_layers) THEN "layers" ELSE "static"
    /\ UNCHANGED <<docVars, runVars, layerVars, current_time, histVars, phase>>

\* StaticCancelled that leaves the loop instead of the run
StaticCancelledBreak ==
    /\ pc = "static"
    /\ phase = "poll"
    /\ static_idx < static_layers
    /\ cancel_checks' = cancel_checks + 1
    /\ cancelled' = TRUE
    /\ dialog_cancelled' = TRUE
    /\ result' = [result EXCEPT !.error_message = CancelMessage]
    /\ static_idx' = static_layers
    /\ UNCHANGED <<pc, exit_path, docVars, static_layers, duration, total_work, processed,
                   total_unique, used_layer_names, track_no, static_exported, layerVars,
                   xdts_doc, current_time, files, export_calls, observed, progress, temp_open,
                   serialized, raised_text, reads, last_export, phase>>
    /\ Reported

\* _is_cancelled() is true at a static layer: lines 260-262
StaticCancelled ==
    /\ pc = "static"
    /\ phase = "poll"
    /\ static_idx < static_layers
    /\ cancel_checks' = cancel_checks + 1
    /\ cancelled' = TRUE
    /\ dialog_cancelled' = TRUE
    /\ result' = [result EXCEPT !.error_message = CancelMessage]
    /\ pc' = "returned"
    /\ exit_path' = "cancelled"
    /\ UNCHANGED <<docVars, runVars, layerVars, xdts_doc, current_time, files, export_calls,
                   observed, progress, temp_open, serialized, raised_text, reads, last_export,
                   phase>>
    /\ Reported

\* static_used_names that starts the static layers with an empty set
static_used_names_fresh(used) == {}
\* line 265: the static layers are named against the set of the animated layers
static_used_names(used) == used

\* a static layer is begun, lines 258-273: _is_cancelled() is false, the layer
\* is named, counted and reported; on_progress hands control to the event loop
\* before the layer is exported
StaticBegin ==
    /\ pc = "static"
    /\ phase = "poll"
    /\ static_idx < static_layers
    /\ \E raw \in layer_names :
         LET base_name == sanitize_filename(raw)
             name == make_unique_name(base_name, static_used_names(used_layer_names))
         IN
         /\ layer_name' = name
         /\ used_layer_names' = static_used_names(used_layer_names) \cup {name}
         /\ progress' = Append(progress, [current |-> processed + 1, total |-> total_work,
                                          message |-> StaticMessage(name),
                                          finished |-> processed])
    /\ cancel_checks' = cancel_checks + 1
    /\ processed' = processed + 1
    /\ phase' = "reported"
    /\ UNCHANGED <<pc, docVars, static_layers, duration, total_work, total_unique, track_no,
                   static_idx, static_exported, hash_to_label, cell_count,
                   last_was_stop_frame, kf, xdts_doc, result, current_time, cancelled, files,
                   export_calls, observed, temp_open, serialized, exit_path, dialog_cancelled,
                   raised_text, reads, last_export>>
    /\ Reported

\* the static layer begun is exported: lines 275-290. A failure is reported as
\* a warning, and on_progress hands control to the event loop once more
StaticExport ==
    /\ pc = "static"
    /\ phase = "reported"
    /\ \E oc \in ExportOutcomes, text \in ExceptionTexts :
         LET filepath == layer_name \o "." \o opt_image_format
             ex == export_frame(oc)
             warning == [current |-> processed, total |-> total_work,
                         message |-> WarningMessage(layer_name), finished |-> processed]
         IN
         /\ current_time' = set_position(current_time, start_frame)
         /\ reads' = Append(reads, read_at("export", set_position(current_time, start_frame),
                                           start_frame))
         /\ raised_text' = IF static_aborts(ex.ret) THEN text ELSE raised_text
         /\ export_calls' = Append(export_calls,
                                   [kind |-> "static", layer |-> layer_name,
                                    frame |-> start_frame, path |-> filepath, hash |-> "",
                                    ret |-> ex.ret])
         /\ files' = IF ex.written THEN files \cup {filepath} ELSE files
         /\ temp_open' = temp_open + ex.created - ex.closed
         /\ IF static_aborts(ex.ret)
            THEN /\ result' = Raised(text)
                 /\ pc' = "returned"
                 /\ exit_path' = "exception"
                 /\ phase' = "poll"
                 /\ UNCHANGED <<static_exported, static_idx, progress>>
            ELSE IF ex.ret = "true"
            THEN /\ static_exported' = static_exported + 1
                 /\ static_idx' = static_idx + 1
                 /\ phase' = "poll"
                 /\ UNCHANGED <<pc, result, exit_path, progress>>
            ELSE /\ progress' = Append(progress, warning)
                 /\ phase' = "warned"
                 /\ UNCHANGED <<pc, result, exit_path, static_exported, static_idx>>
    /\ UNCHANGED <<docVars, static_layers, duration, total_work, processed, total_unique,
                   used_layer_names, track_no, layerVars, xdts_doc, cancel_checks, cancelled,
                   observed, serialized, dialog_cancelled, last_export>>
    /\ Reported

\* after the warning for a static layer the loop goes on: line 258
StaticWarned ==
    /\ pc = "static"
    /\ phase = "warned"
    /\ static_idx' = static_idx + 1
    /\ phase' = "poll"
    /\ UNCHANGED <<pc, docVars, static_layers, duration, total_work, processed, total_unique,
                   used_layer_names, track_no, static_exported, layerVars, xdts_doc, result,
                   current_time, histVars>>

\* loops_done that lets the write start before the static layers are through
loops_done_early(idx, n) == TRUE
\* line 258: the loop over the static layers is exhausted
loops_done(idx, n) == idx = n

\* lines 292-301, and export()'s handler when the write raises
WriteXdts ==
    /\ pc = "static"
    /\ phase = "poll"
    /\ loops_done(static_idx, static_layers)
    /\ \E written \in BOOLEAN, text \in WriteErrors :
         LET xdts_filename == IF opt_export_name # "" THEN sanitize_filename(opt_export_name)
                              ELSE "export"
             xdts_path == xdts_filename \o ".xdts"
         IN  IF written
             THEN /\ serialized' = serialized + 1
                  /\ exit_path' = "success"
                  /\ result' = [result EXCEPT !.success = TRUE,
                                              !.output_path = xdts_path,
                                              !.track_count = Len(animated_layers),
                                              !.unique_frames_exported =
                                                  total_unique + static_exported]
                  /\ UNCHANGED raised_text
             ELSE /\ result' = Raised(text)
                  /\ exit_path' = "write raised"
                  /\ raised_text' = text
                  /\ UNCHANGED serialized
    /\ pc' = "returned"
    /\ UNCHANGED <<docVars, runVars, layerVars, xdts_doc, current_time, cancel_checks,
                   cancelled, files, export_calls, observed, progress, temp_open,
                   dialog_cancelled, reads, last_export, phase>>
    /\ Reported

Next ==
    \/ StartExport
    \/ BeginLayer
    \/ KeyframeCancelled
    \/ KeyframeBegin
    \/ KeyframeStop
    \/ KeyframeExposed
    \/ EndLayer
    \/ StaticCancelled
    \/ StaticBegin
    \/ StaticExport
    \/ StaticWarned
    \/ WriteXdts

Spec == Init /\ [][Next]_vars

\* export() is called again on the engine that has returned: _run_export starts
\* with fresh locals, self._result is the object made by __init__, and the
\* caller's record of the call (the history) starts anew. The document stays
\* where the last call left it, and so do the files written.
ExportAgain ==
    /\ pc = "returned"
    /\ call_no < MaxCalls
    /\ call_no' = call_no + 1
    /\ pc' = "new"
    /\ phase' = "poll"
    /\ result' = result
    /\ static_layers' = 0
    /\ duration' = 0
    /\ total_work' = 0
    /\ xdts_doc' = create_xdts_document(0)
    /\ processed' = 0
    /\ total_unique' = 0
    /\ used_layer_names' = {}
    /\ track_no' = 0
    /\ layer_name' = ""
    /\ hash_to_label' = EmptyMap
    /\ cell_count' = 0
    /\ last_was_stop_frame' = FALSE
    /\ kf' = 1
    /\ static_idx' = 0
    /\ static_exported' = 0
    /\ cancel_checks' = 0
    /\ cancelled' = FALSE
    /\ export_calls' = <<>>
    /\ observed' = <<>>
    /\ progress' = <<>>
    /\ serialized' = 0
    /\ exit_path' = "running"
    /\ dialog_cancelled' = FALSE
    /\ dialog_shown' = "none"
    /\ raised_text' = ""
    /\ reads' = <<>>
    /\ UNCHANGED <<start_frame, end_frame, animated_layers, include_static, layer_names,
                   current_time, files, temp_open, last_export>>

NextReuse ==
    \/ Next
    \/ ExportAgain

\* one engine, export() called up to MaxCalls times
SpecReuse == Init /\ [][NextReuse]_vars

\* ---------------------------------------- export_frame, statement by statement
\* FrameExporter.export_frame called by itself, up to MaxFrameCalls times; pc is
\* "new" between calls. last_export is the call in progress or the last one.
DirectCall(frame, ret) ==
    [kind |-> "direct", layer |-> "", frame |-> frame,
     path |-> "frame" \o Str(frame) \o "." \o opt_image_format, hash |-> "", ret |-> ret]
EfVars == <<phase, docVars, runVars, layerVars, xdts_doc, result, cancel_checks, cancelled,
            observed, progress, serialized, exit_path, dialog_cancelled, dialog_shown,
            raised_text>>

\* finally_close that leaves the temporary document open
finally_close_leaks(open) == open
\* frame_export.py line 88: temp_doc.close()
finally_close(open) == open - 1

\* lines 52-59: move to the frame, read the pixels, return False if there are none
EfBegin ==
    /\ pc = "new"
    /\ Len(export_calls) < MaxFrameCalls
    /\ \E frame \in {start_frame, end_frame}, empty \in BOOLEAN :
         /\ current_time' = set_position(current_time, frame)
         /\ reads' = Append(reads, read_at("export", set_position(current_time, frame), frame))
         /\ IF empty
            THEN /\ last_export' = [oc |-> "empty_pixels", ret |-> "false", created |-> 0,
                                    closed |-> 0]
                 /\ export_calls' = Append(export_calls, DirectCall(frame, "false"))
                 /\ pc' = "new"
            ELSE /\ last_export' = [oc |-> "pending", ret |-> "pending", created |-> 0,
                                    closed |-> 0]
                 /\ export_calls' = export_calls
                 /\ pc' = "ef_create"
    /\ UNCHANGED <<EfVars, files, temp_open>>

\* lines 62-64 and _create_temp_document: return False if Krita gives no document
EfCreateTemp ==
    /\ pc = "ef_create"
    /\ \E made \in BOOLEAN :
         IF made
         THEN /\ temp_open' = temp_open + 1
              /\ last_export' = [last_export EXCEPT !.created = 1]
              /\ export_calls' = export_calls
              /\ pc' = "ef_try"
         ELSE /\ temp_open' = temp_open
              /\ last_export' = [last_export EXCEPT !.oc = "no_temp_doc", !.ret = "false"]
              /\ export_calls' = Append(export_calls, DirectCall(current_time, "false"))
              /\ pc' = "new"
    /\ UNCHANGED <<EfVars, files, current_time, reads>>

\* lines 66-70: setBatchmode and _transfer_pixels, which may raise
EfTransfer ==
    /\ pc = "ef_try"
    /\ \E raises \in BOOLEAN :
         IF raises
         THEN /\ last_export' = [last_export EXCEPT !.oc = "raise_transfer", !.ret = "raise"]
              /\ pc' = "ef_finally"
         ELSE /\ last_export' = last_export
              /\ pc' = "ef_export"
    /\ UNCHANGED <<EfVars, files, current_time, reads, temp_open, export_calls>>

\* lines 72-84: exportImage returns true or false, or raises
EfExportImage ==
    /\ pc = "ef_export"
    /\ \E oc \in {"ok", "export_false", "raise_export"} :
         /\ last_export' = [last_export EXCEPT !.oc = oc, !.ret = export_frame(oc).ret]
         /\ files' = IF export_frame(oc).written
                     THEN files \cup {DirectCall(current_time, "true").path}
                     ELSE files
    /\ pc' = "ef_finally"
    /\ UNCHANGED <<EfVars, current_time, reads, temp_open, export_calls>>

\* lines 86-88: the temporary document is closed, then the call returns or raises
EfFinally ==
    /\ pc = "ef_finally"
    /\ temp_open' = finally_close(temp_open)
    /\ last_export' = [last_export EXCEPT !.closed = 1]
    /\ export_calls' = Append(export_calls, DirectCall(current_time, last_export.ret))
    /\ pc' = "new"
    /\ UNCHANGED <<EfVars, files, current_time, reads>>

InitFrames ==
    /\ start_frame = StartFrame
    /\ end_frame \in StartFrame .. StartFrame + MaxDuration - 1
    /\ animated_layers = <<>>
    /\ include_static = FALSE
    /\ layer_names = PlainNames
    /\ InitEngine

NextFrames ==
    \/ EfBegin
    \/ EfCreateTemp
    \/ EfTransfer
    \/ EfExportImage
    \/ EfFinally

SpecFrames == InitFrames /\ [][NextFrames]_vars

\* a fresh engine on a document of one frame whose layers bear any of RawNames
InitNames ==
    /\ InitDocument({StartFrame}, RawNames)
    /\ InitEngine

SpecNames == InitNames /\ [][Next]_vars

\* ------------------------------------------------------------------ claims
\* the keyframes seen in animated layer t (counted from 1), in order
ObsOf(t) == SelectSeq(observed, LAMBDA o : o.layer = t - 1)
FramesOf(t) == xdts_doc.tracks[t].frames
Min(a, b) == IF a < b THEN a ELSE b
\* the entries of track t that stand for keyframes
KeyEntries(t) == 1 .. Min(Len(FramesOf(t)), Len(ObsOf(t)))
\* the loop over the keyframes of layer t has completed and the track is closed
LayerDone(t) ==
    \/ t < track_no
    \/ t = track_no /\ pc # "frames" /\ kf > Len(animated_layers[t])
NullEntry(offset) == [frame |-> offset, cell |-> SYMBOL_NULL_CELL]

\* the fingerprints among the first i keyframes of obs
HashesUpTo(obs, i) == {obs[k].hash : k \in {j \in 1 .. i : ~obs[j].stop}}
\* the first keyframe of obs with the fingerprint of keyframe i
FirstSeen(obs, i) ==
    CHOOSE k \in 1 .. i :
        /\ ~obs[k].stop
        /\ obs[k].hash = obs[i].hash
        /\ \A j \in 1 .. k - 1 : obs[j].stop \/ obs[j].hash # obs[i].hash

\* C1: within one track, two numbered entries have the same label iff their
\* fingerprints are equal, and the n-th distinct fingerprint of the track has
\* the label str(n).
C1_DedupLabels ==
    \A t \in 1 .. Len(xdts_doc.tracks) :
        LET obs == ObsOf(t)
            fr == FramesOf(t)
            exposed == {i \in KeyEntries(t) : ~obs[i].stop}
        IN  /\ \A i, j \in exposed : (fr[i].cell = fr[j].cell) <=> (obs[i].hash = obs[j].hash)
            /\ \A i \in exposed :
                 fr[i].cell = Str(Cardinality(HashesUpTo(obs, FirstSeen(obs, i))))

C1_Witness ==
    \E t \in 1 .. Len(xdts_doc.tracks) :
        LET obs == ObsOf(t)
            fr == FramesOf(t)
        IN  /\ Len(obs) >= 3 /\ Len(fr) >= 3
            /\ ~obs[1].stop /\ ~obs[2].stop /\ ~obs[3].stop
            /\ obs[1].hash # obs[2].hash /\ obs[3].hash = obs[1].hash
            /\ fr[1].cell = "1" /\ fr[2].cell = "2" /\ fr[3].cell = "1"

\* C2: once a layer's loop has completed, its track ends with exactly one null
\* entry at offset duration, unless the last keyframe was a stop: then the
\* track ends with that stop's null entry, below duration, and has no
\* terminator. A stop followed by a keyframe with content does not suppress
\* the terminator.
C2_Termination ==
    \A t \in 1 .. Len(xdts_doc.tracks) :
        LayerDone(t) =>
            LET obs == ObsOf(t)
                fr == FramesOf(t)
                n == Len(animated_layers[t])
            IN  /\ Len(obs) = n
                /\ IF n > 0 /\ obs[n].stop
                   THEN /\ Len(fr) = n
                        /\ fr[n] = NullEntry(obs[n].frame - start_frame)
                        /\ fr[n].frame < duration
                        /\ \A i \in 1 .. Len(fr) : fr[i].frame # duration
                   ELSE /\ Len(fr) = n + 1
                        /\ fr[n + 1] = NullEntry(duration)
                        /\ \A i \in 1 .. n : fr[i].frame # duration

C2_Witness ==
    \E t \in 1 .. Len(xdts_doc.tracks) :
        /\ LayerDone(t)
        /\ Len(ObsOf(t)) = 2
        /\ ObsOf(t)[1].stop /\ ~ObsOf(t)[2].stop
        /\ Len(FramesOf(t)) = 3
        /\ FramesOf(t)[1].cell = SYMBOL_NULL_CELL
        /\ FramesOf(t)[3] = NullEntry(duration)

\* C3 as stated: a layer without keyframes gives the single entry (0, null).
C3_Original ==
    \A t \in 1 .. Len(xdts_doc.tracks) :
        LayerDone(t) /\ Len(animated_layers[t]) = 0 => FramesOf(t) = <<NullEntry(0)>>

\* C3, amended: a layer without keyframes in the range gives a track that holds
\* only the terminator, and the terminator is the null entry at offset
\* duration.
C3_EmptyLayerTrack ==
    \A t \in 1 .. Len(xdts_doc.tracks) :
        LayerDone(t) /\ Len(animated_layers[t]) = 0 => FramesOf(t) = <<NullEntry(duration)>>

C3_Witness ==
    \E t \in 1 .. Len(xdts_doc.tracks) :
        /\ LayerDone(t)
        /\ Len(animated_layers[t]) = 0
        /\ duration = MaxDuration
        /\ FramesOf(t) = <<NullEntry(MaxDuration)>>

\* C4: the entries of every track are strictly increasing in offset, and the
\* entry of a keyframe is at offset frame - start_frame.
C4_OffsetOrder ==
    \A t \in 1 .. Len(xdts_doc.tracks) :
        LET obs == ObsOf(t)
            fr == FramesOf(t)
        IN  /\ \A i \in 1 .. Len(fr) - 1 : fr[i].frame < fr[i + 1].frame
            /\ \A i \in KeyEntries(t) : fr[i].frame = obs[i].frame - start_frame

C4_Witness ==
    \E t \in 1 .. Len(xdts_doc.tracks) :
        /\ LayerDone(t)
        /\ Len(FramesOf(t)) = 4
        /\ ObsOf(t)[2].stop
        /\ ObsOf(t)[3].frame = end_frame
        /\ FramesOf(t)[4] = NullEntry(duration)

\* the first keyframe of each fingerprint, in order
RECURSIVE FirstOccurrences(_, _)
FirstOccurrences(obs, seen) ==
    IF Len(obs) = 0 THEN <<>>
    ELSE IF Head(obs).stop \/ Head(obs).hash \in seen
    THEN FirstOccurrences(Tail(obs), seen)
    ELSE <<[frame |-> Head(obs).frame, hash |-> Head(obs).hash]>>
             \o FirstOccurrences(Tail(obs), seen \cup {Head(obs).hash})
\* the calls of export_frame for the cells of track t
CellCalls(t) ==
    SelectSeq(export_calls, LAMBDA c : c.kind = "cell" /\ c.layer = xdts_doc.tracks[t].name)

\* C5: within one track export_frame is called once per distinct fingerprint,
\* at the first keyframe that shows it, and every call has a path of its own:
\* a keyframe whose fingerprint was seen gets the label again and no export.
C5_ExportOncePerFingerprint ==
    \A t \in 1 .. Len(xdts_doc.tracks) :
        LET calls == CellCalls(t) IN
        /\ [i \in 1 .. Len(calls) |-> [frame |-> calls[i].frame, hash |-> calls[i].hash]]
               = FirstOccurrences(ObsOf(t), {})
        /\ \A i, j \in 1 .. Len(calls) : calls[i].path = calls[j].path => i = j

C5_Witness ==
    \E t \in 1 .. Len(xdts_doc.tracks) :
        /\ Len(ObsOf(t)) = 3 /\ Len(FramesOf(t)) >= 3
        /\ ObsOf(t)[1].hash = ObsOf(t)[2].hash
        /\ ObsOf(t)[3].hash # ObsOf(t)[1].hash /\ ~ObsOf(t)[3].stop /\ ~ObsOf(t)[1].stop
        /\ FramesOf(t)[1].cell = FramesOf(t)[2].cell
        /\ Len(CellCalls(t)) = 2

\* the fingerprints of the keyframes with content seen in layer t
HashesOf(t) == {ObsOf(t)[i].hash : i \in {j \in 1 .. Len(ObsOf(t)) : ~ObsOf(t)[j].stop}}

\* C6: the fingerprint map belongs to one track. While a layer is processed
\* the map holds the fingerprints of that layer only; the first entry with
\* content of every track has label 1; and a fingerprint that an earlier layer
\* showed is exported again for a later layer that shows it, under a path in
\* the later layer's folder.
C6_CachePerTrack ==
    /\ pc = "frames" => DOMAIN hash_to_label = HashesOf(track_no)
    /\ \A t \in 1 .. Len(xdts_doc.tracks) :
         LET obs == ObsOf(t)
             fr == FramesOf(t)
             exposed == {i \in KeyEntries(t) : ~obs[i].stop}
         IN  /\ \A i \in exposed : (\A j \in exposed : i <= j) => fr[i].cell = "1"
             /\ \A i \in exposed :
                  \E k \in 1 .. Len(CellCalls(t)) :
                      /\ CellCalls(t)[k].hash = obs[i].hash
                      /\ CellCalls(t)[k].path =
                             PathJoin(xdts_doc.tracks[t].name,
                                      _build_filename(xdts_doc.tracks[t].name,
                                                      Int_(fr[i].cell)))

C6_Witness ==
    /\ Len(xdts_doc.tracks) = 2
    /\ Len(ObsOf(1)) >= 1 /\ Len(ObsOf(2)) >= 1
    /\ ~ObsOf(1)[1].stop /\ ~ObsOf(2)[1].stop
    /\ ObsOf(1)[1].hash = ObsOf(2)[1].hash
    /\ FramesOf(1)[1].cell = "1"
    /\ Len(FramesOf(2)) >= 1 /\ FramesOf(2)[1].cell = "1"
    /\ Len(CellCalls(1)) = 1 /\ Len(CellCalls(2)) = 1
    /\ CellCalls(1)[1].path = "A/A_0001.png" /\ CellCalls(2)[1].path = "A_2/A_2_0001.png"
    /\ files = {"A/A_0001.png", "A_2/A_2_0001.png"}

\* C7: when _process_frame returns None for a keyframe, the run ends there:
\* the result is unsuccessful with the message that names the layer and the
\* frame, the frame gets no entry, nothing is processed after it and the
\* document is not written.
C7_FrameFailureAborts ==
    \A i \in 1 .. Len(export_calls) :
        LET c == export_calls[i] IN
        c.kind = "cell" /\ c.ret = "false" =>
            /\ i = Len(export_calls)
            /\ pc = "returned"
            /\ exit_path = "frame failed"
            /\ ~result.success
            /\ result.error_message = FailedMessage(c.layer, c.frame)
            /\ c.layer = xdts_doc.tracks[track_no].name
            /\ c.frame = animated_layers[track_no][kf]
            /\ observed[Len(observed)].frame = c.frame
            /\ Len(FramesOf(track_no)) = kf - 1
            /\ Len(xdts_doc.tracks) = track_no
            /\ static_idx = 0
            /\ serialized = 0
            /\ dialog_shown = "export_failed"

C7_Witness ==
    /\ Len(export_calls) = 2
    /\ export_calls[1].ret = "true"
    /\ export_calls[2].kind = "cell" /\ export_calls[2].ret = "false"
    /\ track_no = 1 /\ Len(animated_layers) = 1
    /\ static_layers = 1
    /\ result.error_message = "Failed to export frame 3 of A"
    /\ pc = "returned"

StaticCalls == SelectSeq(export_calls, LAMBDA c : c.kind = "static")
\* the units of work begun: those whose frame or layer has been looked at, and
\* the one counted and reported whose processing is still to come
UnitsBegun == Len(observed) + Len(StaticCalls) + (IF phase = "reported" THEN 1 ELSE 0)

\* C8: a static layer whose export_frame returns false does not end the run:
\* a warning is reported for it, and the run ends only with the document
\* written and success = true, every static layer having been exported, or by
\* a later cancellation or exception.
C8_StaticFailureNonFatal ==
    \A i \in 1 .. Len(export_calls) :
        LET c == export_calls[i] IN
        c.kind = "static" /\ c.ret = "false" =>
            /\ \E k \in 1 .. Len(progress) : progress[k].message = WarningMessage(c.layer)
            /\ pc \in {"static", "returned"}
            /\ pc = "returned" =>
                 /\ exit_path \in {"success", "cancelled", "exception", "write raised"}
                 /\ exit_path = "exception" =>
                        i < Len(export_calls) /\ export_calls[Len(export_calls)].ret = "raise"
                 /\ exit_path = "success" =>
                        /\ result.success
                        /\ serialized = 1
                        /\ Len(StaticCalls) = static_layers
                        /\ dialog_shown = "success"

C8_Witness ==
    /\ pc = "returned"
    /\ result.success
    /\ serialized = 1
    /\ Len(StaticCalls) = 2
    /\ StaticCalls[1].ret = "false" /\ StaticCalls[2].ret = "true"
    /\ Len(xdts_doc.tracks) = 1
    /\ result.unique_frames_exported = 2

\* what a cancellation leaves as it is
C9_Kept == <<current_time, files, export_calls, observed, xdts_doc, progress, processed,
             temp_open, serialized, hash_to_label, used_layer_names>>
C9_State ==
    /\ cancel_checks = processed + (IF cancelled THEN 1 ELSE 0)
    /\ processed = UnitsBegun
    /\ cancelled =>
         /\ pc = "returned"
         /\ exit_path = "cancelled"
         /\ ~result.success
         /\ result.error_message = CancelMessage
         /\ serialized = 0
C9_Step ==
    /\ ~cancelled
    /\ cancelled' => UNCHANGED C9_Kept
    /\ processed' # processed =>
         processed' = processed + 1 /\ cancel_checks' = cancel_checks + 1
    /\ reads' # reads =>
         /\ cancel_checks' = cancel_checks
         /\ cancel_checks = Len(observed) + Len(StaticCalls) + 1

\* C9: _is_cancelled is called once per unit of work, for each keyframe and
\* each static layer, before the unit is positioned or rendered: a step that
\* renders makes no call, and the one call for its unit was made before it.
\* The call that returns true ends the run: that step changes no position,
\* file, export, track entry or document, nothing happens after it and the
\* document is not written.
C9_CancelOncePerUnit == []C9_State /\ [][C9_Step]_vars

C9_Witness ==
    /\ cancelled
    /\ processed = 2
    /\ cancel_checks = 3
    /\ Cardinality(files) >= 2
    /\ Len(StaticCalls) = 1
    /\ static_layers = 2

\* C10: at the return of export(), the run was cancelled iff the result's
\* message is the cancellation message, iff the dialog's flag is set; the
\* dialog reports no failure for a cancelled run and reports a failure, with
\* the flag clear, for every failed run; the text of a cancelled result
\* differs from the text of every failed result.
C10_CancelledDistinct ==
    pc = "returned" =>
        /\ (exit_path = "cancelled") <=> (result.error_message = CancelMessage)
        /\ (exit_path = "cancelled") <=> dialog_cancelled
        /\ (exit_path = "cancelled") <=>
               (ResultStr(result) = "Export failed: Export cancelled by user")
        /\ exit_path = "cancelled" => ~result.success /\ dialog_shown = "nothing"
        /\ exit_path \in {"no layers", "frame failed", "exception", "write raised"} =>
               ~result.success /\ dialog_shown = "export_failed"

C10_Witness ==
    /\ pc = "returned"
    /\ exit_path = "cancelled"
    /\ dialog_cancelled
    /\ dialog_shown = "nothing"
    /\ result.error_message = CancelMessage
    /\ processed >= 1

\* C11: a run that finds no animated layer and no static layer (include_static
\* off, or on with no static layer in the document) returns an unsuccessful
\* result with the message "No exportable layers found": nothing was rendered
\* or reported, no name, track, folder or image was made and the document was
\* not written. A run with static layers only is not such a run.
C11_NoWork ==
    /\ exit_path = "no layers" =>
         /\ pc = "returned"
         /\ ~result.success
         /\ result.error_message = NoLayersMessage
         /\ Len(animated_layers) = 0 /\ static_layers = 0
         /\ export_calls = <<>> /\ observed = <<>> /\ progress = <<>>
         /\ files = {} /\ used_layer_names = {}
         /\ xdts_doc.tracks = <<>>
         /\ reads = <<>>
         /\ serialized = 0
         /\ dialog_shown = "export_failed"
    /\ pc # "new" /\ Len(animated_layers) = 0 =>
         ((exit_path = "no layers") <=> (static_layers = 0))

C11_Witness ==
    /\ pc = "returned"
    /\ exit_path = "no layers"
    /\ include_static
    /\ result = [NewExportResult EXCEPT !.error_message = "No exportable layers found"]

\* the last entry of track t is a null entry
TrackClosed(t) ==
    /\ Len(FramesOf(t)) >= 1
    /\ FramesOf(t)[Len(FramesOf(t))].cell = SYMBOL_NULL_CELL

\* C12: success is reported only by a run that has consumed every keyframe of
\* every animated layer and closed every track with a stop or a terminator,
\* has attempted every static layer, and has written the document; the
\* document is written once by a successful run and not at all by a run that
\* ended as no work, cancelled or failed.
C12_SuccessLast ==
    /\ serialized <= 1
    /\ result.success <=> serialized = 1
    /\ result.success =>
         /\ pc = "returned" /\ exit_path = "success"
         /\ Len(xdts_doc.tracks) = Len(animated_layers)
         /\ \A t \in 1 .. Len(animated_layers) :
              /\ LayerDone(t)
              /\ Len(ObsOf(t)) = Len(animated_layers[t])
              /\ TrackClosed(t)
         /\ static_idx = static_layers
         /\ Len(StaticCalls) = static_layers
    /\ exit_path \in {"no layers", "cancelled", "frame failed", "exception", "write raised"} =>
         /\ serialized = 0
         /\ ~result.success

C12_Witness ==
    /\ result.success
    /\ serialized = 1
    /\ Len(xdts_doc.tracks) = 2
    /\ Len(observed) = 1 /\ observed[1].stop /\ observed[1].layer = 0
    /\ FramesOf(2) = <<NullEntry(duration)>>
    /\ static_layers = 1 /\ Len(StaticCalls) = 1

\* the distinct fingerprints of the tracks 1..t, track by track
RECURSIVE SumDistinct(_)
SumDistinct(t) == IF t = 0 THEN 0 ELSE Cardinality(HashesOf(t)) + SumDistinct(t - 1)
StaticsWritten == Len(SelectSeq(StaticCalls, LAMBDA c : c.ret = "true"))

\* C13: on a successful run unique_frames_exported is the number of image
\* files written: per animated track the number of distinct fingerprints of
\* its keyframes with content, plus the static layers whose export succeeded;
\* frame_count is the number of keyframes processed, stops included; and
\* track_count is the number of tracks of the document.
C13_CountsExact ==
    result.success =>
        /\ result.unique_frames_exported = Cardinality(files)
        /\ result.unique_frames_exported = SumDistinct(Len(xdts_doc.tracks)) + StaticsWritten
        /\ result.frame_count = Len(observed)
        /\ result.frame_count = count_total_keyframes(animated_layers)
        /\ result.track_count = Len(xdts_doc.tracks)

C13_Witness ==
    /\ result.success
    /\ result.track_count = 1
    /\ result.frame_count = 3
    /\ result.unique_frames_exported = 1
    /\ Len(observed) = 3
    /\ ~observed[1].stop /\ observed[2].stop /\ observed[3].hash = observed[1].hash
    /\ files = {"A/A_0001.png"}

\* the names resolved in the run so far: animated layers, then static layers
ResolvedNames ==
    [i \in 1 .. Len(xdts_doc.tracks) |-> xdts_doc.tracks[i].name]
        \o [i \in 1 .. Len(StaticCalls) |-> StaticCalls[i].layer]
        \o (IF pc = "static" /\ phase = "reported" THEN <<layer_name>> ELSE <<>>)

\* C14: the names resolved in one run, for animated layers and then static
\* layers, are pairwise distinct and non-empty, and are exactly the names
\* registered in the run's set; no unsafe name comes out as it went in.
C14_NamesDistinct ==
    /\ \A i, j \in 1 .. Len(ResolvedNames) : ResolvedNames[i] = ResolvedNames[j] => i = j
    /\ \A i \in 1 .. Len(ResolvedNames) : ResolvedNames[i] \notin {"", "A/2"}
    /\ used_layer_names = {ResolvedNames[i] : i \in 1 .. Len(ResolvedNames)}

C14_Witness ==
    /\ ResolvedNames = <<"A", "A_2", "A_2_2", "unnamed">>
    /\ Len(xdts_doc.tracks) = 2
    /\ result.success

\* C15: when write_xdts_file raises, export() returns: success is false, the
\* message is the text of the error raised, and output_path, track_count and
\* unique_frames_exported are as they were before the run.
C15_WriteFailure ==
    exit_path = "write raised" =>
        /\ pc = "returned"
        /\ ~result.success
        /\ raised_text \in WriteErrors
        /\ result.error_message = raised_text
        /\ result.output_path = NewExportResult.output_path
        /\ result.track_count = NewExportResult.track_count
        /\ result.unique_frames_exported = NewExportResult.unique_frames_exported
        /\ static_idx = static_layers
        /\ serialized = 0
        /\ dialog_shown = "export_failed"

C15_Witness ==
    /\ pc = "returned"
    /\ exit_path = "write raised"
    /\ result.error_message = "[Errno 28] No space left on device"
    /\ Len(xdts_doc.tracks) = 1
    /\ total_unique = 1 /\ static_exported = 1
    /\ result.track_count = 0 /\ result.unique_frames_exported = 0

\* a step that has processed a keyframe detected as a stop
C16_StopStep ==
    /\ Len(observed') = Len(observed) + 1
    /\ observed'[Len(observed')].stop
C16_State ==
    /\ \A t \in 1 .. Len(xdts_doc.tracks) :
         \A i \in KeyEntries(t) :
             ObsOf(t)[i].stop => FramesOf(t)[i] = NullEntry(ObsOf(t)[i].frame - start_frame)
    /\ pc = "frames" => Cardinality(DOMAIN hash_to_label) = Cardinality(HashesOf(track_no))
    /\ pc = "frames" /\ cell_count > 0 => cell_count <= Cardinality(HashesOf(track_no))
C16_Step ==
    C16_StopStep =>
        LET o == observed'[Len(observed')] IN
        /\ pc = "frames" /\ pc' = "frames"
        /\ o.frame = keyframes[kf]
        /\ xdts_doc'.tracks[track_no].frames
               = Append(xdts_doc.tracks[track_no].frames, NullEntry(o.frame - start_frame))
        /\ UNCHANGED <<hash_to_label, cell_count, total_unique, export_calls, files, temp_open>>
        /\ last_was_stop_frame'
        /\ kf' = kf + 1
        /\ track_no' = track_no

\* C16: a keyframe detected as a stop adds the entry (frame - start_frame,
\* null) to the track and nothing else: the fingerprint map and the label
\* count are untouched, no image is exported, and the loop goes on to the next
\* keyframe of the layer; a stop consumes no label.
C16_StopFrameEffect == []C16_State /\ [][C16_Step]_vars

C16_Witness ==
    /\ track_no = 1
    /\ Len(ObsOf(1)) = 3
    /\ FramesOf(1)[1] = [frame |-> 0, cell |-> "1"]
    /\ FramesOf(1)[2] = NullEntry(1)
    /\ Len(FramesOf(1)) >= 3 /\ FramesOf(1)[3] = [frame |-> 2, cell |-> "2"]
    /\ Len(CellCalls(1)) = 2

ReadsOf(kind) == SelectSeq(reads, LAMBDA r : r.kind = kind)
Exposed == SelectSeq(observed, LAMBDA o : ~o.stop)

\* C17: at every read of rendered content (stop detection, the pixel read for
\* the fingerprint, the pixel read of export_frame) the document's position is
\* the frame of the unit being processed: the keyframe's frame for an animated
\* layer, start_frame for a static layer. Every keyframe has its stop read,
\* every keyframe with content its fingerprint read, every call of
\* export_frame its own read, and the position stays where the last read set
\* it.
C17_PositionBeforeRead ==
    /\ \A i \in 1 .. Len(reads) : reads[i].at = reads[i].frame
    /\ [i \in 1 .. Len(ReadsOf("stop")) |-> ReadsOf("stop")[i].frame]
           = [i \in 1 .. Len(observed) |-> observed[i].frame]
    /\ [i \in 1 .. Len(ReadsOf("fingerprint")) |-> ReadsOf("fingerprint")[i].frame]
           = [i \in 1 .. Len(Exposed) |-> Exposed[i].frame]
    /\ [i \in 1 .. Len(ReadsOf("export")) |-> ReadsOf("export")[i].frame]
           = [i \in 1 .. Len(export_calls) |-> export_calls[i].frame]
    /\ \A i \in 1 .. Len(StaticCalls) : StaticCalls[i].frame = start_frame
    /\ Len(reads) > 0 => current_time = reads[Len(reads)].frame

C17_Witness ==
    /\ Len(reads) = 5
    /\ reads[1] = [kind |-> "stop", at |-> 2, frame |-> 2]
    /\ reads[2] = [kind |-> "stop", at |-> 3, frame |-> 3]
    /\ reads[3] = [kind |-> "fingerprint", at |-> 3, frame |-> 3]
    /\ reads[4] = [kind |-> "export", at |-> 3, frame |-> 3]
    /\ reads[5] = [kind |-> "export", at |-> 1, frame |-> 1]
    /\ current_time = start_frame

\* the units of work that ended without a failure
UnitsCompleted ==
    Len(SelectSeq(observed, LAMBDA o : o.label \notin {"None", "raise"}))
        + Len(SelectSeq(StaticCalls, LAMBDA c : c.ret = "true"))

\* C18 as stated: at every report units_completed is the number of units
\* whose processing has finished, and a unit that fails is not counted.
C18_Original ==
    /\ \A i \in 1 .. Len(progress) : progress[i].current = progress[i].finished
    /\ processed = UnitsCompleted

\* What the engine does: a unit is counted and reported when it is begun,
\* after its cancellation check and before its first render, so the count is
\* one more than the units finished; the warning for a static layer repeats
\* the count of that layer; a cancelled unit is not counted, a failed one is.
C18_ReportsAtStart ==
    /\ \A i \in 1 .. Len(progress) :
         /\ progress[i].total = total_work
         /\ progress[i].current \in {progress[i].finished, progress[i].finished + 1}
         /\ progress[i].current = progress[i].finished
                <=> \E c \in 1 .. Len(StaticCalls) :
                        /\ StaticCalls[c].ret = "false"
                        /\ progress[i].message = WarningMessage(StaticCalls[c].layer)
    /\ processed = UnitsBegun
    /\ Len(progress) > 0 => progress[Len(progress)].current = processed

C18_Witness ==
    /\ exit_path = "frame failed"
    /\ Len(progress) = 2
    /\ progress[2].current = 2 /\ progress[2].finished = 1 /\ progress[2].total = 3
    /\ UnitsCompleted = 1

\* the keyframes of the layers whose loop this call has completed
RECURSIVE FrameCountOf(_)
FrameCountOf(t) ==
    IF t = 0 THEN 0
    ELSE (IF LayerDone(t) THEN Len(animated_layers[t]) ELSE 0) + FrameCountOf(t - 1)

\* C19 as stated: the result a call of export() returns describes that call:
\* success iff the call wrote the document, and frame_count the keyframes of
\* the layers the call processed.
C19_Original ==
    pc = "returned" =>
        /\ result.success <=> serialized = 1
        /\ result.frame_count = FrameCountOf(track_no)

\* a later call that ended as no work, cancelled or failed, returning success
C19_Witness ==
    /\ pc = "returned"
    /\ call_no = 2
    /\ exit_path = "cancelled"
    /\ serialized = 0
    /\ result.success
    /\ result.error_message = CancelMessage
    /\ result.frame_count > FrameCountOf(track_no)

\* C20: every temporary document export_frame creates is closed before the
\* call returns or raises, whatever exportImage or the pixel transfer does; a
\* call that reads no pixels returns false and creates none; so between calls
\* no temporary document is open. What a finished call did is what the
\* engine's export_frame says of it.
C20_TempDocsClosed ==
    /\ temp_open \in {0, 1}
    /\ temp_open = 1 <=> pc \in {"ef_try", "ef_export", "ef_finally"}
    /\ pc = "new" /\ last_export # NoExport =>
         /\ last_export.created = last_export.closed
         /\ last_export.oc = "empty_pixels" =>
                last_export.ret = "false" /\ last_export.created = 0
         /\ last_export.oc \in ExportOutcomes
         /\ last_export.ret = export_frame(last_export.oc).ret
         /\ last_export.created = export_frame(last_export.oc).created
         /\ last_export.closed = export_frame(last_export.oc).closed
         /\ export_calls[Len(export_calls)].ret = last_export.ret

C20_Witness ==
    /\ pc = "new"
    /\ Len(export_calls) = 2
    /\ export_calls[1].ret = "raise"
    /\ last_export = [oc |-> "export_false", ret |-> "false", created |-> 1, closed |-> 1]
    /\ temp_open = 0

====
